---- MODULE Spec2Model ----
(***************************************************************************)
(* Token broker of react-native-reCaptcha-V3 (src/src/index.tsx).          *)
(*                                                                         *)
(* The component is single-threaded and event driven.  Every action below *)
(* is one JavaScript task: a call of the imperative handle by the host, a *)
(* message or error event delivered by the WebView, or a setTimeout        *)
(* callback.  A task only queues the React state it sets and returns to   *)
(* the event loop.  React renders in a later step (Render), which gives    *)
(* the closures and the imperative handle the new values, and runs the     *)
(* passive effects of that render (useEffect: the queue drain and the      *)
(* auto-execute effect) in a step after the commit (RunEffects).  Other    *)
(* tasks can run between the three.                                        *)
(*                                                                         *)
(* Closures: executeReCaptcha is re-created on every render and reads the  *)
(* isReady value of that render.  The handle returned by                   *)
(* useImperativeHandle lists isReady among its dependencies, so a getToken *)
(* call captures the executeReCaptcha of the current isReady value; the    *)
(* retry scheduled by that call's wrappedReject keeps using the captured   *)
(* one.  The field calledReady of a call records the captured value.       *)
(***************************************************************************)
EXTENDS FiniteSets, Integers, Sequences, TLC

VARIABLES
  isReady,          \* useState(false), line 181: the value last given to
                    \* the setter, which the next render will see (the
                    \* same holds for the four state variables below)
  isLoading,        \* useState(false), line 182
  error,            \* useState<ReCaptchaError | null>(null), line 183
  status,           \* useState<ReCaptchaStatus>('idle'), line 184
  showError,        \* useState(false), line 185
  tokenPromiseRef,  \* the in-flight slot, line 190
  pendingRequests,  \* requests queued before readiness, line 197
  tokenCache,       \* Map cacheKey -> {token, timestamp}, line 204; each
                    \* entry also remembers the action its token was
                    \* generated for and when the surface delivered it
  timeout,          \* prop, line 147
  retryAttempts,    \* prop, line 148
  autoExecute,      \* prop, line 151
  executeInterval,  \* prop, line 152; 0 when the host sets none
  mounted,          \* the component is mounted (webViewRef.current is set)
  rendered,         \* isReady, isLoading and error of the last committed
                    \* render: what its closures, the imperative handle and
                    \* the dependency lists of its effects hold
  effects,          \* the passive effects of the last commit that have not
                    \* run yet
  overlap,          \* number of steps taken since React was given work
                    \* (a render or effects) that it has not done yet
  timeoutIds,       \* base variant (src/src/index.d.ts, line 78): the calls
                    \* whose stagger timer id the drain recorded
  now,              \* Date.now()
  ticks,            \* number of clock advances so far
  timers,           \* pending setTimeout callbacks, in creation order
  calls,            \* one record per getToken call: its promise and closure
  injected,         \* scripts handed to webViewRef.injectJavaScript, in order
  unanswered,       \* indices of injected scripts the page has not answered
  events,           \* number of events the surface raised on its own
  onError,          \* arguments of the onError calls made by the last task
  onVerify,         \* arguments of the onVerify calls made by the last task
  onTokenGenerated, \* arguments of the onTokenGenerated calls of the last task
  onLoad,           \* number of onLoad calls made by the last task
  last              \* the task that ran last: what it was given, the call
                    \* it belongs to, the in-flight slot it found, for
                    \* getToken the cache entry it found with its age, and
                    \* for a reply the injected script that posted it

vars == <<isReady, isLoading, error, status, showError, tokenPromiseRef,
          pendingRequests, tokenCache, timeout, retryAttempts, autoExecute,
          executeInterval, mounted, rendered, effects, overlap, timeoutIds, now,
          ticks, timers, calls, injected, unanswered, events, onError,
          onVerify, onTokenGenerated, onLoad, last>>

----------------------------------------------------------------------------
(* Bounds of the model *)

MaxCalls == 2
MaxEvents == 1
MaxTicks == 2
MaxRetryAttempts == 2
MaxAutoCalls == 1
MaxLiveCalls == 1
MaxBackoffAttempts == 4
MaxDrainCalls == 3
MaxOverlap == 1
MaxFaultCalls == 2

(* Program constants *)

CACHE_DURATION == 120000
STAGGER_MS == 500
BACKOFF_MS == 1000

(* Inputs *)

SiteKey == "test_site_key"
ActionNames == {"login", "purchase"}
Tokens == {"", "abc123"}
ErrorTexts == {"", "network timeout", "reCAPTCHA browser-error"}
ReplyTexts == {"network timeout"}
ScriptMessages == {"Uncaught SyntaxError"}
Descriptions == {"net::ERR_FAILED"}
StatusCodes == {404, 500}
TimeoutChoices == {1000}
IntervalChoices == {0, 60000}
ActionProp == "login"
Throwers == {"onVerify", "onTokenGenerated"}
UnknownTypes == {"PING", "ready"}
TickSteps == {STAGGER_MS, CACHE_DURATION - STAGGER_MS}

----------------------------------------------------------------------------
(* Values *)

NullError == [code |-> "null", message |-> ""]
NullRequest == [action |-> "", call |-> 0, attempt |-> 0]
\* the request of executeToken: its resolve and reject are those of a bare
\* promise, it belongs to no getToken call
AutoRequest == [action |-> ActionProp, call |-> 0, attempt |-> 1]
NotCached == [token |-> "", age |-> -1]
NoTask == [op |-> "mount", arg |-> "", call |-> 0, req |-> NullRequest,
           found |-> NotCached, script |-> 0]

TIMEOUT_TEXT == "Token generation timeout"
PARSE_TEXT == "Failed to parse reCAPTCHA response"

\* String.prototype.includes
Includes(s, m) ==
  \E i \in 1..(Len(s) - Len(m) + 1) : SubSeq(s, i, i + Len(m) - 1) = m

getErrorMessage(message) ==
  IF Includes(message, "browser-error")
    THEN "Invalid baseUrl or domain not registered in reCAPTCHA console"
  ELSE IF Includes(message, "invalid-input-response")
    THEN "Token expired or already used. Generate a new token."
  ELSE IF Includes(message, "network")
    THEN "Network error. Check your internet connection."
  ELSE IF message # "" THEN message
  ELSE "reCAPTCHA verification failed"

cacheKeyOf(action) == SiteKey \o "-" \o action

\* The whole component state as one record, so that the handlers can be
\* written as the sequential code they are.  A task starts with no
\* callback invoked yet.
Cur ==
  [isReady |-> isReady, isLoading |-> isLoading, error |-> error,
   status |-> status, showError |-> showError,
   tokenPromiseRef |-> tokenPromiseRef, pendingRequests |-> pendingRequests,
   tokenCache |-> tokenCache, timers |-> timers, calls |-> calls,
   injected |-> injected, unanswered |-> unanswered,
   onError |-> <<>>, onVerify |-> <<>>, onTokenGenerated |-> <<>>,
   onLoad |-> 0,
   rendered |-> rendered, effects |-> effects,
   mounted |-> mounted, timeoutIds |-> timeoutIds,
   generatedFor |-> ""]

\* The task handles a VERIFY message whose token the surface generated for
\* action a (the action of the script that posted it).
Delivering(s, a) == [s EXCEPT !.generatedFor = a]

\* the state a task leaves
CommitState(s) ==
  /\ isReady' = s.isReady
  /\ isLoading' = s.isLoading
  /\ error' = s.error
  /\ status' = s.status
  /\ showError' = s.showError
  /\ tokenPromiseRef' = s.tokenPromiseRef
  /\ pendingRequests' = s.pendingRequests
  /\ tokenCache' = s.tokenCache
  /\ timers' = s.timers
  /\ calls' = s.calls
  /\ injected' = s.injected
  /\ unanswered' = s.unanswered
  /\ onError' = s.onError
  /\ onVerify' = s.onVerify
  /\ onTokenGenerated' = s.onTokenGenerated
  /\ onLoad' = s.onLoad
  /\ mounted' = s.mounted
  /\ rendered' = s.rendered
  /\ effects' = s.effects
  /\ timeoutIds' = s.timeoutIds

----------------------------------------------------------------------------
(* Timers *)

RECURSIVE SelectTimers(_, _, _)
\* the timers of ts that are not the timeout timer of call c
SelectTimers(ts, c, i) ==
  IF i > Len(ts) THEN <<>>
  ELSE IF ts[i].kind = "timeout" /\ ts[i].call = c
    THEN SelectTimers(ts, c, i + 1)
    ELSE <<ts[i]>> \o SelectTimers(ts, c, i + 1)

\* clearTimeout(timeoutId) of the getToken call c
clearTimeout(s, c) == [s EXCEPT !.timers = SelectTimers(s.timers, c, 1)]

setTimeout(s, kind, req, delay) ==
  [s EXCEPT !.timers = Append(@, [kind |-> kind, due |-> now + delay,
                                  action |-> req.action, call |-> req.call,
                                  attempt |-> req.attempt])]

\* The timer that fires next: the earliest due time, the earliest created
\* among equals.
NextTimer(ts) ==
  CHOOSE i \in 1..Len(ts) :
    \A j \in 1..Len(ts) :
      \/ ts[i].due < ts[j].due
      \/ ts[i].due = ts[j].due /\ i <= j

RemoveAt(q, i) == SubSeq(q, 1, i - 1) \o SubSeq(q, i + 1, Len(q))

----------------------------------------------------------------------------
(* The promise returned by getToken: settling a settled promise is a no-op *)

resolveDropped(s, c, token) == s

resolve(s, c, token) ==
  IF s.calls[c].promise = "pending"
    THEN [s EXCEPT !.calls[c].promise = "resolved", !.calls[c].value = token]
    ELSE s

reject(s, c, reason) ==
  IF s.calls[c].promise = "pending"
    THEN [s EXCEPT !.calls[c].promise = "rejected", !.calls[c].value = reason]
    ELSE s

clearError(s) ==
  [s EXCEPT !.error = NullError, !.showError = FALSE, !.status = "idle"]

wrappedResolve(s, c, token) ==
  LET s1 == [clearTimeout(s, c) EXCEPT !.isLoading = FALSE]
      key == cacheKeyOf(s.calls[c].action)
      s2 == IF token # ""
              THEN [s1 EXCEPT !.tokenCache =
                      [k \in DOMAIN @ \cup {key} |->
                         IF k = key
                           THEN [token |-> token, timestamp |-> now,
                                 origin |-> IF s.generatedFor # ""
                                              THEN s.generatedFor
                                              ELSE @[k].origin,
                                 delivered |-> IF s.generatedFor # ""
                                                 THEN now
                                                 ELSE @[k].delivered]
                           ELSE @[k]],
                              !.onTokenGenerated = Append(@, token)]
              ELSE s1
  IN resolve(s2, c, token)

\* retryAttempt < retryAttempts, line 411
shouldRetryInclusive(retryAttempt) == retryAttempt <= retryAttempts

shouldRetry(retryAttempt) == retryAttempt < retryAttempts

\* the delay of the retry that follows attempt number retryAttempt, line 417
retryDelayExponential(retryAttempt) == BACKOFF_MS * 2 ^ (retryAttempt - 1)

retryDelay(retryAttempt) == BACKOFF_MS * retryAttempt

wrappedReject(s, c, err, retryAttempt) ==
  LET s1 == [clearTimeout(s, c) EXCEPT !.isLoading = FALSE,
                                        !.calls[c].fails = @ + 1,
                                        !.calls[c].lastErr = err]
  IN IF shouldRetry(retryAttempt)
       THEN setTimeout(s1, "retry",
                       [action |-> s.calls[c].action, call |-> c,
                        attempt |-> retryAttempt + 1],
                       retryDelay(retryAttempt))
       ELSE reject(s1, c, err)

\* the resolve and reject stored with a request: those of getToken for a
\* request of a getToken call, those of the promise of executeToken (lines
\* 297-299) for a request of the auto-execute effect
requestResolve(s, req, token) ==
  IF req.call = 0 THEN s ELSE wrappedResolve(s, req.call, token)

requestReject(s, req, err) ==
  IF req.call = 0 THEN s ELSE wrappedReject(s, req.call, err, req.attempt)

handleErrorKeepsRequest(s, errorMessage, errorCode) ==
  [s EXCEPT !.error = [code |-> errorCode,
                       message |-> getErrorMessage(errorMessage)],
            !.showError = TRUE,
            !.status = "error",
            !.onError = Append(@, errorMessage)]

handleError(s, errorMessage, errorCode) ==
  LET s1 == [s EXCEPT !.error = [code |-> errorCode,
                                 message |-> getErrorMessage(errorMessage)],
                      !.showError = TRUE,
                      !.status = "error",
                      !.onError = Append(@, errorMessage)]
      req == s.tokenPromiseRef
  IN IF req # NullRequest
       THEN [requestReject(s1, req, errorMessage)
               EXCEPT !.tokenPromiseRef = NullRequest]
       ELSE s1

\* pendingRequests.current.push(...), line 327
enqueueFirst(queue, req) == <<req>> \o queue

enqueue(queue, req) == Append(queue, req)

\* Date.now() - cached.timestamp < CACHE_DURATION, line 334
isFreshInclusive(cached, t) == t - cached.timestamp <= CACHE_DURATION

isFreshNever(cached, t) == t - cached.timestamp > CACHE_DURATION

isFresh(cached, t) == t - cached.timestamp < CACHE_DURATION

\* executeReCaptcha as created by a render whose isReady was ready
executeReCaptcha(s, ready, req) ==
  IF ~ready
    THEN [s EXCEPT !.pendingRequests = enqueue(@, req)]
  ELSE LET key == cacheKeyOf(req.action)
       IN IF /\ key \in DOMAIN s.tokenCache
             /\ isFresh(s.tokenCache[key], now)
            THEN requestResolve(s, req, s.tokenCache[key].token)
            ELSE [clearError([s EXCEPT !.isLoading = TRUE,
                                       !.status = "loading"])
                    EXCEPT !.tokenPromiseRef = req,
                           !.injected = Append(@, req),
                           !.unanswered = @ \cup {Len(s.injected) + 1}]

getToken(s, customAction) ==
  LET c == Len(s.calls) + 1
      req == [action |-> customAction, call |-> c, attempt |-> 1]
      s1 == [s EXCEPT !.calls = Append(@, [action |-> customAction,
                                           promise |-> "pending",
                                           value |-> "",
                                           calledReady |->
                                             s.rendered.isReady,
                                           fails |-> 0,
                                           lastErr |-> "",
                                           timedOut |-> FALSE])]
      s2 == setTimeout(s1, "timeout", req, timeout)
  IN executeReCaptcha(s2, s.rendered.isReady, req)

\* the setTimeout callback of getToken, lines 391-394
timeoutCallbackNoReject(s, c) ==
  handleError([s EXCEPT !.calls[c].timedOut = TRUE], TIMEOUT_TEXT, "TIMEOUT")

timeoutCallback(s, c) ==
  LET s1 == handleError([s EXCEPT !.calls[c].timedOut = TRUE],
                        TIMEOUT_TEXT, "TIMEOUT")
  IN reject(s1, c, TIMEOUT_TEXT)

\* useEffect([isReady]), lines 271-290, with the isReady and the
\* executeReCaptcha of the render it belongs to
RECURSIVE staggerRequestsFlat(_, _, _)
staggerRequestsFlat(s, requests, index) ==
  IF index > Len(requests) THEN s
  ELSE staggerRequestsFlat(setTimeout(s, "stagger", requests[index],
                                      STAGGER_MS),
                           requests, index + 1)

RECURSIVE staggerRequests(_, _, _)
staggerRequests(s, requests, index) ==
  IF index > Len(requests) THEN s
  ELSE staggerRequests(setTimeout(s, "stagger", requests[index],
                                  index * STAGGER_MS),
                       requests, index + 1)

drainEffect(s) ==
  IF s.rendered.isReady /\ Len(s.pendingRequests) > 0
    THEN LET requests == s.pendingRequests
             s1 == [s EXCEPT !.pendingRequests = <<>>]
             s2 == executeReCaptcha(s1, TRUE, Head(requests))
         IN staggerRequests(s2, Tail(requests), 1)
    ELSE s

\* useEffect([autoExecute, isReady, action, executeInterval, debug,
\* isLoading]), lines 293-318
clearInterval(s) ==
  [s EXCEPT !.timers = SelectSeq(@, LAMBDA t : t.kind # "interval")]

setInterval(s) == setTimeout(s, "interval", AutoRequest, executeInterval)

executeToken(s) == executeReCaptcha(s, TRUE, AutoRequest)

\* one run of the effect by a render whose isReady and isLoading are ready
\* and loading: the cleanup of the previous run, then the body
autoExecuteEffect(s, ready, loading) ==
  LET s1 == clearInterval(s)
  IN IF autoExecute /\ ready /\ ~loading
       THEN LET s2 == executeToken(s1)
            IN IF executeInterval > 0 THEN setInterval(s2) ELSE s2
       ELSE s1

\* the values a render reads
StateOf(s) ==
  [isReady |-> s.isReady, isLoading |-> s.isLoading, error |-> s.error]

\* React renders the component with the state set so far and commits; the
\* passive effects whose dependencies differ from those of the previous
\* render are scheduled.  The auto-execute effect of a component mounted
\* without autoExecute has an empty body and no cleanup, it is left out.
render(s) ==
  [s EXCEPT !.rendered = StateOf(s),
            !.effects =
              (IF s.isReady # s.rendered.isReady THEN {"drain"} ELSE {})
              \cup
              (IF autoExecute /\ <<s.isReady, s.isLoading>> #
                    <<s.rendered.isReady, s.rendered.isLoading>>
                 THEN {"auto"} ELSE {})]

\* React runs the scheduled passive effects, in the order of the hooks,
\* each with the values of the render it belongs to
runEffects(s) ==
  LET s1 == IF "drain" \in s.effects THEN drainEffect(s) ELSE s
      s2 == IF "auto" \in s.effects
              THEN autoExecuteEffect(s1, s.rendered.isReady,
                                     s.rendered.isLoading)
              ELSE s1
  IN [s2 EXCEPT !.effects = {}]

\* handleMessage for each shape of event.nativeEvent.data
handleReady(s) ==
  [s EXCEPT !.isReady = TRUE, !.status = "ready", !.showError = FALSE,
            !.onLoad = @ + 1]

\* data.token of a VERIFY message is truthy, line 547
carriesTokenAlways(token) == TRUE

carriesToken(token) == token # ""

handleVerifyInFlightOnly(s, token) ==
  IF carriesToken(token) /\ s.tokenPromiseRef # NullRequest
    THEN [requestResolve([s EXCEPT !.status = "success",
                                   !.onVerify = Append(@, token)],
                         s.tokenPromiseRef, token)
            EXCEPT !.tokenPromiseRef = NullRequest]
    ELSE s

handleVerify(s, token) ==
  IF carriesToken(token)
    THEN LET s1 == [s EXCEPT !.status = "success",
                             !.onVerify = Append(@, token)]
             req == s.tokenPromiseRef
         IN IF req # NullRequest
              THEN [requestResolve(s1, req, token)
                      EXCEPT !.tokenPromiseRef = NullRequest]
              ELSE s1
    ELSE s

handleErrorMessageFriendly(s, text) ==
  handleError(s, getErrorMessage(text),
              IF Includes(text, "browser-error") THEN "BROWSER_ERROR"
                                                 ELSE "WEBVIEW_ERROR")

handleErrorMessageExact(s, text) ==
  handleError(s, IF text # "" THEN text ELSE "reCAPTCHA error",
              IF text = "browser-error" THEN "BROWSER_ERROR"
                                        ELSE "WEBVIEW_ERROR")

handleErrorMessage(s, text) ==
  handleError(s, IF text # "" THEN text ELSE "reCAPTCHA error",
              IF Includes(text, "browser-error") THEN "BROWSER_ERROR"
                                                 ELSE "WEBVIEW_ERROR")

\* the if / else-if chain of handleMessage over the parsed data, lines
\* 539-557: a type that matches no branch falls through
handleMessageStrict(s, data) ==
  IF data.type = "READY" THEN handleReady(s)
  ELSE IF data.type = "VERIFY" /\ carriesToken(data.token)
    THEN handleVerify(s, data.token)
  ELSE IF data.type = "ERROR" THEN handleErrorMessage(s, data.error)
  ELSE handleError(s, "Unknown message type", "WEBVIEW_ERROR")

handleMessage(s, data) ==
  IF data.type = "READY" THEN handleReady(s)
  ELSE IF data.type = "VERIFY" /\ carriesToken(data.token)
    THEN handleVerify(s, data.token)
  ELSE IF data.type = "ERROR" THEN handleErrorMessage(s, data.error)
  ELSE s

handleParseFailureDropsQueue(s) ==
  [handleError(s, PARSE_TEXT, "WEBVIEW_ERROR") EXCEPT !.pendingRequests = <<>>]

handleParseFailure(s) == handleError(s, PARSE_TEXT, "WEBVIEW_ERROR")

\* handleMessage for a VERIFY message when the host callback thrower throws:
\* the exception leaves the try block where the callback was called (for
\* onTokenGenerated inside wrappedResolve, after the cache write and before
\* resolve(token)) and the catch of lines 558-560 handles it; the slot has
\* not been cleared yet
handleVerifyThrowing(s, token, thrower) ==
  IF ~carriesToken(token) THEN s
  ELSE LET s1 == [s EXCEPT !.status = "success",
                           !.onVerify = Append(@, token)]
           req == s.tokenPromiseRef
       IN IF thrower = "onVerify" THEN handleParseFailure(s1)
          ELSE IF req # NullRequest /\ req.call # 0
            THEN handleParseFailure(
                   [wrappedResolve(s1, req.call, token)
                      EXCEPT !.calls[req.call].promise
                               = s1.calls[req.call].promise,
                             !.calls[req.call].value
                               = s1.calls[req.call].value])
          ELSE handleVerify(s, token)

handleWebViewErrorDropsQueue(s, description) ==
  [handleError(s, "WebView error: " \o description, "WEBVIEW_ERROR")
     EXCEPT !.pendingRequests = <<>>]

handleWebViewError(s, description) ==
  handleError(s, "WebView error: " \o description, "WEBVIEW_ERROR")

handleWebViewHttpError(s, statusCode) ==
  handleError(s, "WebView HTTP error: " \o ToString(statusCode),
              IF statusCode >= 500 THEN "NETWORK_ERROR" ELSE "WEBVIEW_ERROR")

----------------------------------------------------------------------------
(* Initial state: the component has just mounted *)

Init ==
  /\ isReady = FALSE
  /\ isLoading = FALSE
  /\ error = NullError
  /\ status = "idle"
  /\ showError = FALSE
  /\ tokenPromiseRef = NullRequest
  /\ pendingRequests = <<>>
  /\ tokenCache = [k \in {} |-> [token |-> "", timestamp |-> 0,
                                  origin |-> "", delivered |-> 0]]
  /\ timeout \in TimeoutChoices
  /\ retryAttempts \in 0..MaxRetryAttempts
  /\ autoExecute = FALSE
  /\ executeInterval = 0
  /\ mounted = TRUE
  /\ rendered = [isReady |-> FALSE, isLoading |-> FALSE, error |-> NullError]
  /\ effects = {}
  /\ overlap = 0
  /\ timeoutIds = <<>>
  /\ now = 0
  /\ ticks = 0
  /\ timers = <<>>
  /\ calls = <<>>
  /\ injected = <<>>
  /\ unanswered = {}
  /\ events = 0
  /\ onError = <<>>
  /\ onVerify = <<>>
  /\ onTokenGenerated = <<>>
  /\ onLoad = 0
  /\ last = NoTask

\* React has no render and no effect to run
ReactIdle == ~mounted \/ (effects = {} /\ rendered = StateOf(Cur))

\* A step other than React's own: at most MaxOverlap of them are taken
\* while React has work to do.
Task ==
  /\ ReactIdle \/ overlap < MaxOverlap
  /\ overlap' = IF ReactIdle THEN 0 ELSE overlap + 1

Frame == UNCHANGED <<timeout, retryAttempts, autoExecute, executeInterval,
                     now, ticks>>

(* Host: ref.current.getToken(customAction) *)
GetTokenCall(a) ==
  /\ CommitState(getToken(Cur, a))
  /\ last' = [op |-> "getToken", arg |-> a, call |-> Len(calls) + 1,
              req |-> tokenPromiseRef,
              found |-> IF cacheKeyOf(a) \in DOMAIN tokenCache
                          THEN [token |-> tokenCache[cacheKeyOf(a)].token,
                                age |-> now -
                                        tokenCache[cacheKeyOf(a)].timestamp]
                          ELSE NotCached,
              script |-> 0]
  /\ UNCHANGED events
  /\ Task
  /\ Frame

GetToken(a) == Len(calls) < MaxCalls /\ GetTokenCall(a)

(* Host: ref.current.clearError() *)
ClearError ==
  /\ error # NullError \/ status # "idle" \/ showError
  /\ CommitState(clearError(Cur))
  /\ last' = [op |-> "clearError", arg |-> "", call |-> 0,
              req |-> tokenPromiseRef, found |-> NotCached, script |-> 0]
  /\ UNCHANGED events
  /\ Task
  /\ Frame

(* Surface: the page posts {type: 'READY'} *)
Ready ==
  /\ events < MaxEvents \/ ~isReady
  /\ CommitState(handleReady(Cur))
  /\ last' = [op |-> "READY", arg |-> "", call |-> 0,
              req |-> tokenPromiseRef, found |-> NotCached, script |-> 0]
  /\ events' = IF isReady THEN events + 1 ELSE events
  /\ Task
  /\ Frame

(* Surface: an injected script answers {type: 'VERIFY', token} *)
Verify(i, token) ==
  /\ i \in unanswered
  /\ CommitState([handleVerify(Delivering(Cur, injected[i].action), token)
               EXCEPT !.unanswered = @ \ {i}])
  /\ last' = [op |-> "VERIFY", arg |-> token, call |-> 0,
              req |-> tokenPromiseRef, found |-> NotCached, script |-> i]
  /\ UNCHANGED events
  /\ Task
  /\ Frame

(* Surface: an injected script answers {type: 'VERIFY', token} and the
   host's callback thrower throws when it is called *)
VerifyThrows(i, token, thrower) ==
  /\ i \in unanswered
  /\ CommitState([handleVerifyThrowing(Delivering(Cur, injected[i].action),
                                  token, thrower)
               EXCEPT !.unanswered = @ \ {i}])
  /\ last' = [op |-> "VERIFY", arg |-> token, call |-> 0,
              req |-> tokenPromiseRef, found |-> NotCached, script |-> i]
  /\ UNCHANGED events
  /\ Task
  /\ Frame

(* Surface: an injected script answers {type: 'ERROR', error} *)
ErrorReply(i, text) ==
  /\ i \in unanswered
  /\ CommitState([handleErrorMessage(Cur, text) EXCEPT !.unanswered = @ \ {i}])
  /\ last' = [op |-> "ERROR", arg |-> text, call |-> 0,
              req |-> tokenPromiseRef, found |-> NotCached, script |-> i]
  /\ UNCHANGED events
  /\ Task
  /\ Frame

(* Surface: window.onerror posts {type: 'ERROR', error} on its own *)
ScriptError(text) ==
  /\ events < MaxEvents
  /\ CommitState(handleErrorMessage(Cur, "Script error: " \o text))
  /\ last' = [op |-> "ERROR", arg |-> "Script error: " \o text, call |-> 0,
              req |-> tokenPromiseRef, found |-> NotCached, script |-> 0]
  /\ events' = events + 1
  /\ Task
  /\ Frame

(* Surface: a {type: 'VERIFY', token} message that answers no injected
   script, as the test of lines 855-875 sends *)
StrayVerify(token) ==
  /\ events < MaxEvents
  /\ CommitState(handleVerify(Delivering(Cur, "unsolicited"), token))
  /\ last' = [op |-> "VERIFY", arg |-> token, call |-> 0,
              req |-> tokenPromiseRef, found |-> NotCached, script |-> 0]
  /\ events' = events + 1
  /\ Task
  /\ Frame

(* Surface: a well-formed message of a type the broker does not know *)
UnknownMessage(type) ==
  /\ events < MaxEvents
  /\ CommitState(handleMessage(Cur, [type |-> type, token |-> "abc123",
                                error |-> "network timeout"]))
  /\ last' = [op |-> "message", arg |-> type, call |-> 0,
              req |-> tokenPromiseRef, found |-> NotCached, script |-> 0]
  /\ events' = events + 1
  /\ Task
  /\ Frame

(* Surface: a message that JSON.parse rejects *)
Unparsable ==
  /\ events < MaxEvents
  /\ CommitState(handleParseFailure(Cur))
  /\ last' = [op |-> "unparsable", arg |-> "", call |-> 0,
              req |-> tokenPromiseRef, found |-> NotCached, script |-> 0]
  /\ events' = events + 1
  /\ Task
  /\ Frame

(* WebView: onError *)
WebViewError(description) ==
  /\ events < MaxEvents
  /\ CommitState(handleWebViewError(Cur, description))
  /\ last' = [op |-> "webViewError", arg |-> description, call |-> 0,
              req |-> tokenPromiseRef, found |-> NotCached, script |-> 0]
  /\ events' = events + 1
  /\ Task
  /\ Frame

(* WebView: onHttpError *)
WebViewHttpError(statusCode) ==
  /\ events < MaxEvents
  /\ CommitState(handleWebViewHttpError(Cur, statusCode))
  /\ last' = [op |-> "webViewHttpError", arg |-> ToString(statusCode),
              call |-> 0, req |-> tokenPromiseRef, found |-> NotCached, script |-> 0]
  /\ events' = events + 1
  /\ Task
  /\ Frame

(* React renders and commits the state set by the tasks so far; the effects
   of the previous commit have run by then *)
Render ==
  /\ mounted
  /\ effects = {}
  /\ rendered # StateOf(Cur)
  /\ CommitState(render(Cur))
  /\ last' = [op |-> "render", arg |-> "", call |-> 0,
              req |-> tokenPromiseRef, found |-> NotCached, script |-> 0]
  /\ UNCHANGED events
  /\ overlap' = 0
  /\ Frame

(* React runs the passive effects of the last commit *)
RunEffects ==
  /\ effects # {}
  /\ CommitState(runEffects(Cur))
  /\ last' = [op |-> "effects", arg |-> "", call |-> 0,
              req |-> tokenPromiseRef, found |-> NotCached, script |-> 0]
  /\ UNCHANGED events
  /\ overlap' = 0
  /\ Frame

(* A setTimeout callback runs: the earliest one that is due *)
FireTimeout ==
  /\ timers # <<>>
  /\ LET i == NextTimer(timers)
         t == timers[i]
         s == [Cur EXCEPT !.timers = RemoveAt(timers, i)]
     IN /\ t.due <= now
        /\ t.kind = "timeout"
        /\ CommitState(timeoutCallback(s, t.call))
        /\ last' = [op |-> "timeout", arg |-> "", call |-> t.call,
                    req |-> tokenPromiseRef, found |-> NotCached, script |-> 0]
  /\ UNCHANGED events
  /\ Task
  /\ Frame

FireStagger ==
  /\ timers # <<>>
  /\ LET i == NextTimer(timers)
         t == timers[i]
         s == [Cur EXCEPT !.timers = RemoveAt(timers, i)]
     IN /\ t.due <= now
        /\ t.kind = "stagger"
        /\ CommitState(executeReCaptcha(s, TRUE, [action |-> t.action,
                                             call |-> t.call,
                                             attempt |-> t.attempt]))
        /\ last' = [op |-> "stagger", arg |-> t.action, call |-> t.call,
                    req |-> tokenPromiseRef, found |-> NotCached, script |-> 0]
  /\ UNCHANGED events
  /\ Task
  /\ Frame

FireRetry ==
  /\ timers # <<>>
  /\ LET i == NextTimer(timers)
         t == timers[i]
         s == [Cur EXCEPT !.timers = RemoveAt(timers, i)]
     IN /\ t.due <= now
        /\ t.kind = "retry"
        /\ CommitState(executeReCaptcha(s, calls[t.call].calledReady,
                                   [action |-> t.action, call |-> t.call,
                                    attempt |-> t.attempt]))
        /\ last' = [op |-> "retry", arg |-> t.action, call |-> t.call,
                    req |-> tokenPromiseRef, found |-> NotCached, script |-> 0]
  /\ UNCHANGED events
  /\ Task
  /\ Frame

(* The setInterval callback of the auto-execute effect runs *)
FireInterval ==
  /\ timers # <<>>
  /\ LET i == NextTimer(timers)
         t == timers[i]
         s == [Cur EXCEPT !.timers[i].due = @ + executeInterval]
     IN /\ t.due <= now
        /\ t.kind = "interval"
        /\ CommitState(executeToken(s))
        /\ last' = [op |-> "interval", arg |-> t.action, call |-> 0,
                    req |-> tokenPromiseRef, found |-> NotCached,
                    script |-> 0]
  /\ UNCHANGED events
  /\ Task
  /\ Frame

(* Time passes, never beyond the next timer that is due.  Only timers and
   cache timestamps read the clock. *)
Tick ==
  /\ ticks < MaxTicks
  /\ timers # <<>> \/ DOMAIN tokenCache # {}
  /\ \E t \in {now + d : d \in TickSteps} \cup
              {timers[i].due : i \in 1..Len(timers)} :
       /\ t > now
       /\ \A i \in 1..Len(timers) : t <= timers[i].due
       /\ now' = t
  /\ ticks' = ticks + 1
  /\ Task
  /\ UNCHANGED <<isReady, isLoading, error, status, showError,
                 tokenPromiseRef, pendingRequests, tokenCache, timeout,
                 retryAttempts, autoExecute, executeInterval, mounted,
                 rendered, effects, timeoutIds, timers, calls, injected, unanswered, events,
                 onError, onVerify, onTokenGenerated, onLoad, last>>

(* The broker with a page that works: it posts READY (possibly more than
   once, see checkRecaptchaReady) and answers the scripts injected into it. *)
Next ==
  \/ \E a \in ActionNames : GetToken(a)
  \/ ClearError
  \/ Ready
  \/ \E i \in unanswered, token \in Tokens : Verify(i, token)
  \/ \E i \in unanswered, text \in ReplyTexts : ErrorReply(i, text)
  \/ FireTimeout
  \/ FireStagger
  \/ FireRetry
  \/ Render
  \/ RunEffects
  \/ Tick

Spec == Init /\ [][Next]_vars

(* The failures the surface raises on its own. *)
Fault ==
  \/ \E text \in ScriptMessages : ScriptError(text)
  \/ \E token \in Tokens : StrayVerify(token)
  \/ Unparsable
  \/ \E description \in Descriptions : WebViewError(description)
  \/ \E statusCode \in StatusCodes : WebViewHttpError(statusCode)

(* The broker when every scheduled timer eventually fires and the surface
   answers or not as it likes: time advances to the next timer whenever none
   is due, and a due timer runs.  The host makes at most MaxLiveCalls
   getToken calls; with one call the drain creates no stagger timer. *)
Elapse ==
  /\ timers # <<>>
  /\ \A i \in 1..Len(timers) : timers[i].due > now
  /\ now' = timers[NextTimer(timers)].due
  /\ Task
  /\ UNCHANGED <<isReady, isLoading, error, status, showError,
                 tokenPromiseRef, pendingRequests, tokenCache, timeout,
                 retryAttempts, autoExecute, executeInterval, mounted,
                 rendered, effects, timeoutIds, ticks, timers, calls, injected, unanswered,
                 events, onError, onVerify, onTokenGenerated, onLoad, last>>

NextLive ==
  \/ \E a \in ActionNames : Len(calls) < MaxLiveCalls /\ GetToken(a)
  \/ Ready
  \/ \E i \in unanswered, token \in Tokens : Verify(i, token)
  \/ \E i \in unanswered, text \in ErrorTexts : ErrorReply(i, text)
  \/ FireTimeout
  \/ FireRetry
  \/ Render
  \/ RunEffects
  \/ Elapse

SpecLive ==
  /\ Init
  /\ [][NextLive]_vars
  /\ WF_vars(Render)
  /\ WF_vars(RunEffects)
  /\ WF_vars(FireTimeout)
  /\ WF_vars(FireRetry)
  /\ WF_vars(Elapse)

(* One getToken call and a surface that also fails on its own. *)
NextFaults == NextLive \/ Fault

SpecFaults == Init /\ [][NextFaults]_vars

(* Up to MaxFaultCalls getToken calls and a surface that fails on its own
   while they wait in the queue or in the slot. *)
NextQueueFaults ==
  \/ \E a \in ActionNames : Len(calls) < MaxFaultCalls /\ GetTokenCall(a)
  \/ Ready
  \/ \E i \in unanswered, token \in Tokens : Verify(i, token)
  \/ FireTimeout
  \/ FireStagger
  \/ FireRetry
  \/ Render
  \/ RunEffects
  \/ Elapse
  \/ Fault

SpecQueueFaults == Init /\ [][NextQueueFaults]_vars

(* The broker of Spec with messages of unknown type. *)
NextUnknown == Next \/ \E type \in UnknownTypes : UnknownMessage(type)

SpecUnknown == Init /\ [][NextUnknown]_vars

(* One getToken call made by a host whose onVerify or onTokenGenerated
   callback may throw. *)
NextThrow ==
  \/ NextLive
  \/ \E i \in unanswered, token \in Tokens, thrower \in Throwers :
       VerifyThrows(i, token, thrower)

SpecThrow == Init /\ [][NextThrow]_vars

(* One getToken call with three or more attempts allowed, to see the delays
   of successive retries. *)
InitRetry ==
  /\ isReady = FALSE
  /\ isLoading = FALSE
  /\ error = NullError
  /\ status = "idle"
  /\ showError = FALSE
  /\ tokenPromiseRef = NullRequest
  /\ pendingRequests = <<>>
  /\ tokenCache = [k \in {} |-> [token |-> "", timestamp |-> 0,
                                  origin |-> "", delivered |-> 0]]
  /\ timeout \in TimeoutChoices
  /\ retryAttempts \in 3..MaxBackoffAttempts
  /\ autoExecute = FALSE
  /\ executeInterval = 0
  /\ mounted = TRUE
  /\ rendered = [isReady |-> FALSE, isLoading |-> FALSE, error |-> NullError]
  /\ effects = {}
  /\ overlap = 0
  /\ timeoutIds = <<>>
  /\ now = 0
  /\ ticks = 0
  /\ timers = <<>>
  /\ calls = <<>>
  /\ injected = <<>>
  /\ unanswered = {}
  /\ events = 0
  /\ onError = <<>>
  /\ onVerify = <<>>
  /\ onTokenGenerated = <<>>
  /\ onLoad = 0
  /\ last = NoTask

SpecRetry == InitRetry /\ [][NextLive]_vars

(* The host calls getToken up to MaxDrainCalls times while the page loads,
   then the page posts READY and the queue is drained.  The page answers
   the scripts with VERIFY messages, with or without a token; requests fail
   by timeout only. *)
NextDrain ==
  \/ \E a \in ActionNames :
       ~isReady /\ Len(calls) < MaxDrainCalls /\ GetTokenCall(a)
  \/ Ready
  \/ \E i \in unanswered, token \in Tokens : Verify(i, token)
  \/ FireTimeout
  \/ FireStagger
  \/ FireRetry
  \/ Render
  \/ RunEffects
  \/ Elapse

SpecDrain == Init /\ [][NextDrain]_vars

(* The broker mounted with autoExecute, with and without executeInterval.
   The host makes at most MaxAutoCalls getToken calls of its own; with one
   call the drain creates no stagger timer. *)
InitAuto ==
  /\ isReady = FALSE
  /\ isLoading = FALSE
  /\ error = NullError
  /\ status = "idle"
  /\ showError = FALSE
  /\ tokenPromiseRef = NullRequest
  /\ pendingRequests = <<>>
  /\ tokenCache = [k \in {} |-> [token |-> "", timestamp |-> 0,
                                  origin |-> "", delivered |-> 0]]
  /\ timeout \in TimeoutChoices
  /\ retryAttempts \in 0..MaxRetryAttempts
  /\ autoExecute = TRUE
  /\ executeInterval \in IntervalChoices
  /\ mounted = TRUE
  /\ rendered = [isReady |-> FALSE, isLoading |-> FALSE, error |-> NullError]
  /\ effects = {}
  /\ overlap = 0
  /\ timeoutIds = <<>>
  /\ now = 0
  /\ ticks = 0
  /\ timers = <<>>
  /\ calls = <<>>
  /\ injected = <<>>
  /\ unanswered = {}
  /\ events = 0
  /\ onError = <<>>
  /\ onVerify = <<>>
  /\ onTokenGenerated = <<>>
  /\ onLoad = 0
  /\ last = NoTask

NextAuto ==
  \/ \E a \in ActionNames : Len(calls) < MaxAutoCalls /\ GetToken(a)
  \/ ClearError
  \/ Ready
  \/ \E i \in unanswered, token \in Tokens : Verify(i, token)
  \/ \E i \in unanswered, text \in ReplyTexts : ErrorReply(i, text)
  \/ FireTimeout
  \/ FireRetry
  \/ FireInterval
  \/ Render
  \/ RunEffects
  \/ Tick

SpecAuto == InitAuto /\ [][NextAuto]_vars

----------------------------------------------------------------------------
(* The base variant of the component, src/src/index.d.ts: no cache, no
   timeout, no retry and no ErrorState; the drain records the ids of its
   stagger timers in timeoutIds and the effect has a cleanup. *)

\* executeReCaptcha, lines 92-150; webViewRef.current is null once the
\* component has unmounted
baseExecuteReCaptcha(s, ready, req) ==
  IF ~ready
    THEN [s EXCEPT !.pendingRequests = enqueue(@, req)]
  ELSE IF s.mounted
    THEN [s EXCEPT !.tokenPromiseRef = req,
                   !.injected = Append(@, req),
                   !.unanswered = @ \cup {Len(s.injected) + 1}]
    ELSE [s EXCEPT !.tokenPromiseRef = req]

\* getToken, lines 198-203
baseGetToken(s, customAction) ==
  LET c == Len(s.calls) + 1
      req == [action |-> customAction, call |-> c, attempt |-> 1]
      s1 == [s EXCEPT !.calls = Append(@, [action |-> customAction,
                                           promise |-> "pending",
                                           value |-> "",
                                           calledReady |->
                                             s.rendered.isReady,
                                           fails |-> 0,
                                           lastErr |-> "",
                                           timedOut |-> FALSE])]
  IN baseExecuteReCaptcha(s1, s.rendered.isReady, req)

\* the effect of lines 153-183
RECURSIVE baseStaggerRequests(_, _, _)
baseStaggerRequests(s, requests, index) ==
  IF index > Len(requests) THEN s
  ELSE baseStaggerRequests(
         [setTimeout(s, "stagger", requests[index], index * STAGGER_MS)
            EXCEPT !.timeoutIds = Append(@, requests[index].call)],
         requests, index + 1)

baseDrainEffect(s) ==
  IF s.rendered.isReady /\ Len(s.pendingRequests) > 0
    THEN LET requests == s.pendingRequests
             s1 == [s EXCEPT !.pendingRequests = <<>>]
             s2 == baseExecuteReCaptcha(s1, TRUE, Head(requests))
         IN baseStaggerRequests(s2, Tail(requests), 1)
    ELSE s

\* the cleanup of lines 186-192, returned by a render whose isReady was
\* ready
baseCleanup(s, ready) ==
  IF ~ready
    THEN [s EXCEPT !.timers = SelectSeq(@, LAMBDA t :
                                ~(t.kind = "stagger" /\
                                  \E k \in 1..Len(s.timeoutIds) :
                                     s.timeoutIds[k] = t.call)),
                   !.timeoutIds = <<>>]
    ELSE s

\* the passive effect of the render in which isReady changed: the cleanup
\* returned by the previous render, then the body
baseRunEffects(s) ==
  [baseDrainEffect(baseCleanup(s, ~s.rendered.isReady))
     EXCEPT !.effects = {}]

\* handleMessage, lines 262-287
baseHandleReady(s) == [s EXCEPT !.isReady = TRUE]

baseHandleVerify(s, token) ==
  IF token # ""
    THEN LET s1 == [s EXCEPT !.onVerify = Append(@, token)]
             req == s.tokenPromiseRef
         IN IF req # NullRequest
              THEN [resolve(s1, req.call, token)
                      EXCEPT !.tokenPromiseRef = NullRequest]
              ELSE s1
    ELSE s

\* handleError, lines 80-89
baseHandleError(s, text) ==
  LET s1 == [s EXCEPT !.onError = Append(@, text)]
      req == s.tokenPromiseRef
  IN IF req # NullRequest
       THEN [reject(s1, req.call, text) EXCEPT !.tokenPromiseRef = NullRequest]
       ELSE s1

\* unmount: the cleanup of the last render runs
baseUnmount(s) ==
  [baseCleanup(s, s.rendered.isReady) EXCEPT !.mounted = FALSE]

BaseGetToken(a) ==
  /\ mounted
  /\ Len(calls) < MaxCalls
  /\ CommitState(baseGetToken(Cur, a))
  /\ last' = [op |-> "getToken", arg |-> a, call |-> Len(calls) + 1,
              req |-> tokenPromiseRef, found |-> NotCached, script |-> 0]
  /\ UNCHANGED events
  /\ Task
  /\ Frame

BaseReady ==
  /\ mounted
  /\ events < MaxEvents \/ ~isReady
  /\ CommitState(baseHandleReady(Cur))
  /\ last' = [op |-> "READY", arg |-> "", call |-> 0,
              req |-> tokenPromiseRef, found |-> NotCached, script |-> 0]
  /\ events' = IF isReady THEN events + 1 ELSE events
  /\ Task
  /\ Frame

BaseVerify(i, token) ==
  /\ mounted
  /\ i \in unanswered
  /\ CommitState([baseHandleVerify(Cur, token) EXCEPT !.unanswered = @ \ {i}])
  /\ last' = [op |-> "VERIFY", arg |-> token, call |-> 0,
              req |-> tokenPromiseRef, found |-> NotCached, script |-> i]
  /\ UNCHANGED events
  /\ Task
  /\ Frame

BaseErrorReply(i, text) ==
  /\ mounted
  /\ i \in unanswered
  /\ CommitState([baseHandleError(Cur, IF text # "" THEN text
                                                   ELSE "reCAPTCHA error")
                   EXCEPT !.unanswered = @ \ {i}])
  /\ last' = [op |-> "ERROR", arg |-> text, call |-> 0,
              req |-> tokenPromiseRef, found |-> NotCached, script |-> i]
  /\ UNCHANGED events
  /\ Task
  /\ Frame

BaseFireStagger ==
  /\ timers # <<>>
  /\ LET i == NextTimer(timers)
         t == timers[i]
         s == [Cur EXCEPT !.timers = RemoveAt(timers, i)]
     IN /\ t.due <= now
        /\ t.kind = "stagger"
        /\ CommitState(baseExecuteReCaptcha(s, TRUE,
                                            [action |-> t.action,
                                             call |-> t.call,
                                             attempt |-> t.attempt]))
        /\ last' = [op |-> "stagger", arg |-> t.action, call |-> t.call,
                    req |-> tokenPromiseRef, found |-> NotCached,
                    script |-> 0]
  /\ UNCHANGED events
  /\ Task
  /\ Frame

BaseRunEffects ==
  /\ effects # {}
  /\ CommitState(baseRunEffects(Cur))
  /\ last' = [op |-> "effects", arg |-> "", call |-> 0,
              req |-> tokenPromiseRef, found |-> NotCached, script |-> 0]
  /\ UNCHANGED events
  /\ overlap' = 0
  /\ Frame

BaseUnmount ==
  /\ mounted
  /\ effects = {}
  /\ CommitState(baseUnmount(Cur))
  /\ last' = [op |-> "unmount", arg |-> "", call |-> 0,
              req |-> tokenPromiseRef, found |-> NotCached, script |-> 0]
  /\ UNCHANGED events
  /\ Task
  /\ Frame

InitBase ==
  /\ isReady = FALSE
  /\ isLoading = FALSE
  /\ error = NullError
  /\ status = "idle"
  /\ showError = FALSE
  /\ tokenPromiseRef = NullRequest
  /\ pendingRequests = <<>>
  /\ tokenCache = [k \in {} |-> [token |-> "", timestamp |-> 0,
                                  origin |-> "", delivered |-> 0]]
  /\ timeout = 0
  /\ retryAttempts = 0
  /\ autoExecute = FALSE
  /\ executeInterval = 0
  /\ mounted = TRUE
  /\ rendered = [isReady |-> FALSE, isLoading |-> FALSE, error |-> NullError]
  /\ effects = {}
  /\ overlap = 0
  /\ timeoutIds = <<>>
  /\ now = 0
  /\ ticks = 0
  /\ timers = <<>>
  /\ calls = <<>>
  /\ injected = <<>>
  /\ unanswered = {}
  /\ events = 0
  /\ onError = <<>>
  /\ onVerify = <<>>
  /\ onTokenGenerated = <<>>
  /\ onLoad = 0
  /\ last = NoTask

NextBase ==
  \/ \E a \in ActionNames : BaseGetToken(a)
  \/ BaseReady
  \/ \E i \in unanswered, token \in Tokens : BaseVerify(i, token)
  \/ \E i \in unanswered, text \in ErrorTexts : BaseErrorReply(i, text)
  \/ BaseFireStagger
  \/ Render
  \/ BaseRunEffects
  \/ BaseUnmount
  \/ Tick

SpecBase == InitBase /\ [][NextBase]_vars

----------------------------------------------------------------------------
(* Properties *)

Calls == 1..Len(calls)

\* the positions of the log of injected scripts that hold the first dispatch
\* of a getToken call made before READY
QueuedDispatches ==
  {i \in 1..Len(injected) :
     ~calls[injected[i].call].calledReady /\ injected[i].attempt = 1}

\* C1: a getToken request submitted before READY reaches the surface only
\* once READY has been handled, and the requests submitted before READY
\* reach it in the order of their submission.
C1_QueuedDispatchedInOrderAfterReady ==
  /\ injected # <<>> => isReady
  /\ \A c \in Calls :
       ~isReady /\ calls[c].promise = "pending" =>
         \E k \in 1..Len(pendingRequests) : pendingRequests[k].call = c
  /\ \A i, j \in QueuedDispatches :
       i < j => injected[i].call < injected[j].call

C1_Witness ==
  \E i, j \in QueuedDispatches : i < j /\ last.op = "stagger"

\* C2: whenever executeReCaptcha stores a request in the in-flight slot, the
\* slot is empty at that moment.
C2_DispatchFindsSlotEmpty ==
  [][tokenPromiseRef' # tokenPromiseRef /\ tokenPromiseRef' # NullRequest
       => tokenPromiseRef = NullRequest]_vars


\* C3: while the surface has not sent READY, a pending getToken call keeps
\* its timeout timer armed, and when that timer fires the promise is
\* rejected with the timeout error and the ErrorState code is TIMEOUT.
C3_TimeoutRejectsBeforeReady ==
  /\ \A c \in Calls :
       ~isReady /\ calls[c].promise = "pending" =>
         \E k \in 1..Len(timers) :
           /\ timers[k].kind = "timeout" /\ timers[k].call = c
           /\ timers[k].due <= now + timeout
  /\ last.op = "timeout" /\ ~isReady =>
       /\ calls[last.call].promise = "rejected"
       /\ calls[last.call].value = TIMEOUT_TEXT
       /\ error.code = "TIMEOUT"
       /\ onError = <<TIMEOUT_TEXT>>

C3_Witness ==
  /\ last.op = "timeout" /\ ~isReady
  /\ calls[last.call].promise = "rejected"
  /\ Len(pendingRequests) > 0

\* the request of the getToken call that ran last
LastRequest == [action |-> last.arg, call |-> last.call, attempt |-> 1]

\* C4: a getToken(action) call made less than CACHE_DURATION after the token
\* cached for (siteKey, action) was stored resolves at once with the cached
\* token; it injects no script and leaves the in-flight slot as it was.
C4_FreshCacheServesCall ==
  /\ last.op = "getToken"
  /\ last.found # NotCached
  /\ last.found.age < CACHE_DURATION
  => /\ calls[last.call].promise = "resolved"
     /\ calls[last.call].value = last.found.token
     /\ \A i \in 1..Len(injected) : injected[i].call # last.call
     /\ tokenPromiseRef = last.req

C4_Witness ==
  /\ last.op = "getToken"
  /\ last.found # NotCached
  /\ last.found.age = CACHE_DURATION - STAGGER_MS
  /\ calls[last.call].promise = "resolved"
  /\ calls[last.call].value = "abc123"

\* C5: a getToken(action) call that finds a cache entry stored CACHE_DURATION
\* or longer ago does not return it: the call stays pending and its request
\* is dispatched to the surface.
C5_StaleCacheDispatches ==
  /\ last.op = "getToken"
  /\ last.found # NotCached
  /\ last.found.age >= CACHE_DURATION
  => /\ calls[last.call].promise = "pending"
     /\ injected # <<>>
     /\ injected[Len(injected)] = LastRequest
     /\ Len(injected) \in unanswered
     /\ tokenPromiseRef = LastRequest

C5_Witness ==
  /\ last.op = "getToken"
  /\ last.found # NotCached
  /\ last.found.age = CACHE_DURATION
  /\ tokenPromiseRef = LastRequest

\* C6: when the request of a getToken call made before READY is in flight
\* and a VERIFY message carrying a token arrives, onVerify is called with
\* the token and the promise of that call, pending until then (it stays
\* pending until its own timeout fires), resolves with the token.
C6_QueuedCallResolvesWithToken ==
  /\ last.op = "VERIFY" /\ last.arg # ""
  /\ last.req # NullRequest
  /\ ~calls[last.req.call].calledReady
  => /\ onVerify = <<last.arg>>
     /\ ~calls[last.req.call].timedOut =>
          /\ calls[last.req.call].promise = "resolved"
          /\ calls[last.req.call].value = last.arg

C6_Witness ==
  /\ last.op = "VERIFY" /\ last.arg = "abc123"
  /\ last.req # NullRequest
  /\ ~calls[last.req.call].calledReady
  /\ calls[last.req.call].promise = "resolved"
  /\ calls[last.req.call].value = "abc123"
  /\ onVerify = <<"abc123">>

\* the number of attempts a getToken call is given: wrappedReject starts at
\* attempt 1 and retries while the attempt number is below retryAttempts
AttemptsAllowed == IF retryAttempts > 1 THEN retryAttempts ELSE 1

RetryArmed(c) ==
  \E k \in 1..Len(timers) : timers[k].kind = "retry" /\ timers[k].call = c

\* C7: a getToken call whose attempts fail (and whose timeout never fired)
\* is rejected exactly when the number of its failed attempts reaches
\* retryAttempts; no retry is scheduled then, and the rejection reason is the
\* error of the last failed attempt.
C7_RejectedAtRetryAttempts ==
  \A c \in Calls :
    ~calls[c].timedOut =>
      /\ calls[c].promise = "rejected" => calls[c].fails = retryAttempts
      /\ calls[c].fails > 0 /\ calls[c].fails = retryAttempts =>
           calls[c].promise = "rejected"
      /\ calls[c].promise = "rejected" =>
           calls[c].value = calls[c].lastErr /\ ~RetryArmed(c)

\* C7 as amended: the same with the count max(1, retryAttempts); with
\* retryAttempts = 0 the first failure rejects.
C7_RejectedAtAttemptsAllowed ==
  \A c \in Calls :
    /\ calls[c].fails <= AttemptsAllowed
    /\ ~calls[c].timedOut =>
         /\ calls[c].promise = "rejected" <=> calls[c].fails = AttemptsAllowed
         /\ calls[c].promise = "rejected" =>
              /\ calls[c].value = calls[c].lastErr
              /\ ~RetryArmed(c)
              /\ tokenPromiseRef.call # c

C7_Witness ==
  \E c \in Calls :
    /\ retryAttempts = 2
    /\ calls[c].fails = 2
    /\ ~calls[c].timedOut
    /\ calls[c].promise = "rejected"
    /\ last.op = "ERROR" /\ last.req.call = c

\* the number of scripts injected for call c
Dispatches(c) == Cardinality({i \in 1..Len(injected) : injected[i].call = c})

\* C8: a getToken call made after READY whose dispatches all fail is
\* dispatched retryAttempts + 1 times (the initial dispatch and retryAttempts
\* retries) before its promise is rejected.
C8_RetriesEqualRetryAttempts ==
  \A c \in Calls :
    /\ calls[c].calledReady /\ ~calls[c].timedOut
    /\ calls[c].promise = "rejected"
    => Dispatches(c) = retryAttempts + 1

\* isReady() of the imperative handle, lines 427-429
isReadyResult == rendered.isReady

\* C9: the readiness flag never goes back to false, and isReady() returns
\* it: false until READY has been handled, true in every state after that.
C9_ReadinessMonotonic ==
  /\ [](isReadyResult = isReady)
  /\ [][/\ isReady => isReady'
        /\ isReadyResult => isReadyResult'
        /\ isReady' /\ ~isReady => last'.op = "READY"]_vars

FailureOps ==
  {"ERROR", "unparsable", "webViewError", "webViewHttpError", "timeout"}

\* C10: every failure handled while a request is in flight invokes onError
\* once, invokes the reject continuation of that request with the same
\* failure text, and leaves the slot empty, in one task.
C10_FailureRejectsInFlight ==
  last.op \in FailureOps /\ last.req # NullRequest =>
    /\ Len(onError) = 1
    /\ onError[1] # "" /\ Includes(onError[1], last.arg)
    /\ calls[last.req.call].fails >= 1
    /\ calls[last.req.call].lastErr = onError[1]
    /\ calls[last.req.call].promise = "pending" => RetryArmed(last.req.call)
    /\ tokenPromiseRef = NullRequest

C10_Witness ==
  /\ last.op = "webViewHttpError"
  /\ last.req # NullRequest
  /\ calls[last.req.call].lastErr = "WebView HTTP error: 500"
  /\ calls[last.req.call].promise = "rejected"
  /\ onError = <<"WebView HTTP error: 500">>
  /\ tokenPromiseRef = NullRequest

IntervalArmed == \E k \in 1..Len(timers) : timers[k].kind = "interval"

\* C16: with autoExecute and executeInterval = T > 0, once the render that
\* shows the surface ready has run its effects the refresh interval is armed
\* whenever React has no work left (an execution is started every T ms);
\* the executions it starts do not cancel it.
C16_IntervalArmedWhileReady ==
  autoExecute /\ executeInterval > 0 /\ rendered.isReady /\ ReactIdle =>
    IntervalArmed

\* C17: in the base variant, once the component has unmounted no stagger
\* timer of the drain is still pending, and no stagger timer runs.
C17_UnmountClearsStaggerTimers ==
  ~mounted =>
    /\ \A k \in 1..Len(timers) : timers[k].kind # "stagger"
    /\ last.op # "stagger"

\* C18: isLoading is true exactly while a dispatched request awaits its
\* reply, for requests of getToken and of autoExecute alike.
C18_LoadingTracksInFlight ==
  isLoading <=> tokenPromiseRef # NullRequest

\* C11: every VERIFY message that carries a token invokes onVerify once with
\* that token, whether or not a request is in flight and whether or not
\* READY has been handled.
C11_VerifyInvokesOnVerifyOnce ==
  last.op = "VERIFY" /\ last.arg # "" => onVerify = <<last.arg>>

C11_Witness ==
  /\ last.op = "VERIFY" /\ last.arg = "abc123"
  /\ ~isReady
  /\ last.req = NullRequest
  /\ Len(pendingRequests) > 0
  /\ onVerify = <<"abc123">>

\* C12: every ERROR message invokes onError once with the error string of
\* the message as it came ('reCAPTCHA error' when it has none), not with the
\* user-friendly message kept in ErrorState, also when no request is in
\* flight.
C12_ErrorInvokesOnErrorWithRawText ==
  last.op = "ERROR" =>
    /\ onError = <<IF last.arg # "" THEN last.arg ELSE "reCAPTCHA error">>
    /\ error.message = getErrorMessage(onError[1])

C12_Witness ==
  /\ last.op = "ERROR" /\ last.arg = "network timeout"
  /\ last.req = NullRequest
  /\ onError = <<"network timeout">>
  /\ error.message = "Network error. Check your internet connection."

\* C13: an ERROR reply whose text contains 'browser-error' leaves ErrorState
\* with code BROWSER_ERROR, any other ERROR reply with code WEBVIEW_ERROR.
C13_ErrorCodeClassifiesBrowserError ==
  last.op = "ERROR" =>
    error.code = IF Includes(last.arg, "browser-error")
                   THEN "BROWSER_ERROR" ELSE "WEBVIEW_ERROR"

C13_Witness ==
  /\ last.op = "ERROR" /\ last.arg = "reCAPTCHA browser-error"
  /\ error.code = "BROWSER_ERROR"
  /\ error.message =
       "Invalid baseUrl or domain not registered in reCAPTCHA console"

\* getError() of the imperative handle, lines 431-433
getErrorResult == rendered.error

\* C14: after a READY message or a VERIFY message with a token has been
\* handled, getError() returns null.
C14_ReadyOrVerifyClearsError ==
  last.op = "READY" \/ (last.op = "VERIFY" /\ last.arg # "") =>
    /\ error = NullError
    /\ ReactIdle => getErrorResult = NullError

\* C15: onTokenGenerated is invoked once for a token the surface produced
\* for a getToken call, and not at all by a getToken call served from the
\* token cache.
C15_OnTokenGeneratedOnlyForNewTokens ==
  /\ last.op = "getToken" => onTokenGenerated = <<>>
  /\ last.op = "VERIFY" /\ last.arg # "" /\ last.req # NullRequest =>
       onTokenGenerated = <<last.arg>>

\* C19: every getToken call eventually settles when the timers fire,
\* whatever the surface does.
C19_EveryCallSettles ==
  \A c \in 1..MaxLiveCalls :
    Len(calls) >= c ~> (Len(calls) >= c /\ calls[c].promise # "pending")

\* C20: the token a getToken(a) promise resolves with was produced by the
\* script injected for action a.
C20_TokenGeneratedForCallersAction ==
  /\ last.op = "VERIFY" /\ last.arg # ""
  /\ last.script # 0
  /\ last.req # NullRequest /\ last.req.call # 0
  /\ calls[last.req.call].promise = "resolved"
  /\ calls[last.req.call].value = last.arg
  => injected[last.script].action = calls[last.req.call].action

\* C21: the cache entry stored under the key of (siteKey, a) holds a token
\* that the surface generated for action a.
C21_CacheHoldsTokenOfItsAction ==
  \A a \in ActionNames :
    cacheKeyOf(a) \in DOMAIN tokenCache =>
      tokenCache[cacheKeyOf(a)].origin = a

\* C22: the freshness window of a cache entry starts when the surface
\* delivered its token and serving the entry does not move it: a getToken
\* call is served from the cache less than CACHE_DURATION after the delivery.
C22_ServingDoesNotExtendFreshness ==
  /\ \A k \in DOMAIN tokenCache :
       tokenCache[k].timestamp = tokenCache[k].delivered
  /\ last.op = "getToken" /\ last.found # NotCached
       /\ calls[last.call].promise = "resolved" =>
         now - tokenCache[cacheKeyOf(last.arg)].delivered < CACHE_DURATION

\* C23: once the promise of a getToken call has settled, no further script
\* is injected for that call, and no VERIFY message resolves a request of
\* that call (which would write the cache and invoke onTokenGenerated).
C23_NoWorkForSettledCall ==
  [][/\ \A c \in Calls :
          calls[c].promise # "pending" => Dispatches(c)' = Dispatches(c)
     /\ last'.op = "VERIFY" /\ last'.arg # "" /\ last'.req.call # 0 =>
          calls'[last'.req.call].promise # "rejected"]_vars

\* C24: when the timeout of a getToken call fires while the in-flight slot
\* holds the request of a different call, that request stays in flight: it
\* is not rejected and no retry is scheduled for it.
C24_TimeoutLeavesOtherRequestInFlight ==
  /\ last.op = "timeout"
  /\ last.req # NullRequest
  /\ last.req.call # last.call
  => /\ tokenPromiseRef = last.req
     /\ ~RetryArmed(last.req.call)

\* C25: after READY has been handled every request pushed to the pending
\* queue is eventually taken out of it.
C25_QueueEventuallyDrained ==
  (isReady /\ Len(pendingRequests) > 0) ~> (pendingRequests = <<>>)

\* C30: the status leaves 'error' only by a clearError() call of the host,
\* which makes it 'idle'.
C30_ErrorLeftOnlyByClearError ==
  [][status = "error" /\ status' # "error" =>
       last'.op = "clearError" /\ status' = "idle"]_vars

\* C26: the timer of the retry that follows the failed attempt number k of a
\* getToken call is due k * 1000 ms after the failure: 1000, 2000, 3000 ms
\* for k = 1, 2, 3.
C26_BackoffIsLinear ==
  [][\A i \in 1..Len(timers') :
       /\ timers'[i].kind = "retry"
       /\ ~\E j \in 1..Len(timers) : timers[j] = timers'[i]
       => /\ timers'[i].due = now' + BACKOFF_MS * (timers'[i].attempt - 1)
          /\ calls'[timers'[i].call].fails = timers'[i].attempt - 1]_vars

C26_Witness ==
  /\ last.op = "ERROR"
  /\ \E i \in 1..Len(timers) :
       /\ timers[i].kind = "retry"
       /\ timers[i].attempt = 4
       /\ calls[timers[i].call].fails = 3
       /\ timers[i].due = now + 3000

\* the number of stagger timers
StaggerTimers == Cardinality({i \in 1..Len(timers) : timers[i].kind = "stagger"})

\* the drain effect runs in this step
DrainStep == "drain" \in effects /\ last'.op = "effects"

\* C27: the drain effect, run after the render that makes isReady true,
\* empties the queue, dispatches the request at position 0 at once and
\* creates one timer per later request, the one of position i due i * 500 ms
\* later; no other step creates such a timer, and when one fires its request
\* is executed (injected, or served from the cache) and the timer is gone.
C27_DrainStaggersByPosition ==
  [][/\ DrainStep /\ pendingRequests # <<>> =>
          /\ pendingRequests' = <<>>
          /\ tokenPromiseRef' = pendingRequests[1]
          /\ Len(injected') = Len(injected) + 1
          /\ injected'[Len(injected')].call = pendingRequests[1].call
          /\ StaggerTimers' = Len(pendingRequests) - 1
          /\ \A i \in 1..(Len(pendingRequests) - 1) :
               Cardinality({k \in 1..Len(timers') :
                  timers'[k] = [kind |-> "stagger",
                                due |-> now' + i * STAGGER_MS,
                                action |-> pendingRequests[i + 1].action,
                                call |-> pendingRequests[i + 1].call,
                                attempt |-> pendingRequests[i + 1].attempt]})
                 = 1
     /\ ~DrainStep => StaggerTimers' <= StaggerTimers
     /\ StaggerTimers' < StaggerTimers =>
          /\ StaggerTimers' = StaggerTimers - 1
          /\ last'.op = "stagger"
          /\ \/ /\ Len(injected') = Len(injected) + 1
                /\ injected'[Len(injected')].call = last'.call
                /\ tokenPromiseRef'.call = last'.call
             \/ /\ cacheKeyOf(last'.arg) \in DOMAIN tokenCache
                /\ isFresh(tokenCache[cacheKeyOf(last'.arg)], now)
                /\ injected' = injected]_vars

C27_Witness ==
  /\ last.op = "effects"
  /\ Len(calls) = 3
  /\ pendingRequests = <<>>
  /\ tokenPromiseRef.call = 1
  /\ \E k \in 1..Len(timers) :
       timers[k].kind = "stagger" /\ timers[k].call = 3
         /\ timers[k].due = now + 2 * STAGGER_MS

\* C28: a message that cannot be parsed sets the error code WEBVIEW_ERROR,
\* calls onError once with 'Failed to parse reCAPTCHA response', runs the
\* reject continuation of the request in flight and empties the slot; the
\* pending queue, the token cache and isReady are unchanged.
C28_ParseFailureIsAnError ==
  [][last'.op = "unparsable" /\ events' # events =>
       /\ error'.code = "WEBVIEW_ERROR"
       /\ status' = "error"
       /\ onError' = <<PARSE_TEXT>>
       /\ tokenPromiseRef' = NullRequest
       /\ tokenPromiseRef # NullRequest =>
            calls'[tokenPromiseRef.call].fails
              = calls[tokenPromiseRef.call].fails + 1
       /\ UNCHANGED <<pendingRequests, tokenCache, isReady>>]_vars

C28_Witness ==
  /\ last.op = "unparsable"
  /\ last.req # NullRequest
  /\ calls[last.req.call].fails >= 1
  /\ calls[last.req.call].lastErr = PARSE_TEXT
  /\ pendingRequests # <<>>
  /\ error.code = "WEBVIEW_ERROR"

\* C29: a message whose type is none of READY, VERIFY, ERROR changes none of
\* isReady, the in-flight slot, the pending queue, the token cache, the
\* ErrorState and the status, and calls none of onError, onVerify,
\* onTokenGenerated and onLoad.
C29_UnknownTypeIgnored ==
  [][last'.op = "message" /\ events' # events =>
       /\ UNCHANGED <<isReady, tokenPromiseRef, pendingRequests, tokenCache,
                      error, showError, status, isLoading, timers, calls>>
       /\ onError' = <<>>
       /\ onVerify' = <<>>
       /\ onTokenGenerated' = <<>>
       /\ onLoad' = 0]_vars

C29_Witness ==
  /\ last.op = "message"
  /\ last.arg = "PING"
  /\ tokenPromiseRef # NullRequest
  /\ last.req = tokenPromiseRef
  /\ isReady

\* C31: right after a getToken call dispatches a request (surface ready, no
\* fresh cache entry: the request is in the slot and its script injected)
\* the status is 'loading', and it is 'loading' for as long as that state
\* lasts.
C31_LoadingWhileDispatched ==
  /\ last.op = "getToken"
  /\ tokenPromiseRef = LastRequest
  /\ injected # <<>>
  /\ injected[Len(injected)] = LastRequest
  => status = "loading"

\* C32: once READY has been handled, a further READY message does not
\* invoke onLoad again, and the queue is drained once: by the drain effect,
\* which only the render that first shows isReady true schedules.
C32_ReadyHandledOnce ==
  [][/\ isReady /\ events' # events => onLoad' = 0
     /\ Len(pendingRequests') < Len(pendingRequests) => DrainStep
     /\ "drain" \in effects' /\ "drain" \notin effects =>
          ~rendered.isReady /\ rendered'.isReady]_vars

\* the getToken calls that have a request in the pending queue
QueuedCalls == {pendingRequests[i].call : i \in 1..Len(pendingRequests)}

\* C33: a failure raised by the surface or the WebView while requests wait
\* for READY leaves the queue as it is and settles no call; a request leaves
\* the queue only in the drain that follows READY, and a call whose request
\* is queued ends only by its own timeout or in that drain.
C33_FailureLeavesQueue ==
  [][/\ /\ ~isReady
        /\ pendingRequests # <<>>
        /\ events' # events
        /\ last'.op \in FailureOps \ {"timeout"}
        => /\ pendingRequests' = pendingRequests
           /\ timers' = timers
           /\ calls' = calls
           /\ tokenPromiseRef' = NullRequest
     /\ Len(pendingRequests') < Len(pendingRequests) => DrainStep
     /\ \A c \in QueuedCalls :
          calls[c].promise = "pending" /\ calls'[c].promise # "pending" =>
            \/ /\ calls'[c].timedOut
               /\ calls'[c].promise = "rejected"
               /\ calls'[c].value = TIMEOUT_TEXT
            \/ DrainStep]_vars

C33_Witness ==
  /\ last.op \in {"webViewError", "webViewHttpError", "ERROR"}
  /\ ~isReady
  /\ Len(pendingRequests) = 2
  /\ error # NullError
  /\ onError # <<>>
  /\ \A c \in Calls : calls[c].promise = "pending"

\* C34: a getToken promise only resolves with a non-empty token: the token
\* of the VERIFY message handled by the task that resolves it, or the token
\* of the cache entry of its action; a VERIFY message without a token
\* leaves the slot, the calls, the timers, the cache and the status as they
\* were and calls no callback.
C34_ResolvesWithTokenOnly ==
  [][/\ \A c \in 1..Len(calls') :
          /\ calls'[c].promise = "resolved"
          /\ c \in Calls => calls[c].promise = "pending"
          => /\ calls'[c].value # ""
             /\ IF last'.op = "VERIFY"
                  THEN /\ calls'[c].value = last'.arg
                       /\ tokenPromiseRef.call = c
                  ELSE /\ cacheKeyOf(calls'[c].action) \in DOMAIN tokenCache
                       /\ calls'[c].value
                            = tokenCache[cacheKeyOf(calls'[c].action)].token
     /\ unanswered' # unanswered /\ last'.op = "VERIFY" /\ last'.arg = "" =>
          /\ UNCHANGED <<tokenPromiseRef, calls, timers, tokenCache, status,
                         isLoading, error, pendingRequests>>
          /\ onVerify' = <<>>
          /\ onTokenGenerated' = <<>>
          /\ onError' = <<>>]_vars

C34_Witness ==
  /\ last.op = "VERIFY"
  /\ last.arg = ""
  /\ last.req # NullRequest
  /\ tokenPromiseRef = last.req
  /\ calls[last.req.call].promise = "pending"
  /\ \E c \in Calls : calls[c].promise = "resolved" /\ calls[c].value = "abc123"

\* C35: a VERIFY message with a token, handled while the request of a
\* pending getToken call is in the slot, resolves that call with the token
\* and reports no failure, whatever the host's callbacks do.
C35_VerifyResolvesDespiteThrow ==
  [][/\ unanswered' # unanswered
     /\ last'.op = "VERIFY"
     /\ carriesToken(last'.arg)
     /\ tokenPromiseRef # NullRequest
     /\ tokenPromiseRef.call # 0
     /\ calls[tokenPromiseRef.call].promise = "pending"
     => /\ calls'[tokenPromiseRef.call].promise = "resolved"
        /\ calls'[tokenPromiseRef.call].value = last'.arg
        /\ onError' = <<>>
        /\ error' = error]_vars

====
